---- MODULE Spec2Model ----
(***************************************************************************)
(* Analytics event ingestion service (FastAPI + PostgreSQL + Redis).       *)
(*                                                                         *)
(* The module models                                                       *)
(*   - app/utils.py      update_session  (the sessions table state machine)*)
(*   - app/endpoints.py  get_ip_metadata_cached, collect_event             *)
(*   - app/ip_utils.py   hash_ip, _is_local_ip, get_ip_metadata,           *)
(*                       serialize_metadata / deserialize_metadata         *)
(*   - app/redis_client.py  RedisClient.get / set                          *)
(*   - app/database.py   Database.get_connection / get_cursor              *)
(*   - app/database.py   init_tables;  app/main.py  lifespan               *)
(*   - app/utils.py      get_ip_address                                    *)
(*                                                                         *)
(* The specifications share the variables:                                 *)
(*   SpecSeq    update_session calls run one at a time (each call atomic)  *)
(*   SpecConc   update_session calls of several worker processes, their    *)
(*              SQL statements interleaved (PostgreSQL READ COMMITTED)     *)
(*   Spec       collect_event requests of one event loop, with the cache,  *)
(*              the provider and the background tasks                      *)
(*   SpecEnrich get_ip_metadata_cached over every address of the corpus    *)
(*   SpecFetch  get_cached_or_fetch beside get_ip_metadata_cached          *)
(*   SpecLife   the application over restarts (lifespan, init_tables)      *)
(*   SpecCursor the exit paths of Database.get_cursor                      *)
(*   SpecAddr   get_ip_address on the headers of a request                 *)
(*   SpecAsn    get_ip_metadata on the org field of the provider's answer  *)
(***************************************************************************)
EXTENDS Integers, Sequences, FiniteSets, TLC

VARIABLES
    sessions,      \* committed rows of table sessions; the row id is the index
    continued,     \* per sessions row: number of committed "continued" events
    now,           \* the database clock NOW(), in minutes
    calls,         \* number of update_session calls that have returned
    lastCall,      \* SpecSeq: the update_session call that returned last
    txn,           \* per worker: the open update_session transaction
    cache,         \* Redis: key -> serialized value, or NoEntry
    events,        \* committed rows of table events
    reqs,          \* collect_event requests, in arrival order
    resolverCalls, \* number of provider HTTP requests issued, per address index
    lookups,       \* SpecEnrich, SpecFetch: the enrichment calls, in arrival order
    cursorUses,    \* SpecCursor: the uses of Database.get_cursor, in order
    addrCall,      \* SpecAddr: a request and what get_ip_address returned for it
    asnCall        \* SpecAsn: an org field and the asn get_ip_metadata returned

vars == <<sessions, continued, now, calls, lastCall, txn, cache, events, reqs,
          resolverCalls, lookups, cursorUses, addrCall, asnCall>>

sessionVars == <<sessions, continued, now, calls, lastCall, txn>>
ingestVars  == <<cache, events, reqs, resolverCalls, lookups>>
auxVars     == <<cursorUses, addrCall, asnCall>>

----------------------------------------------------------------------------
(* Bounds of the model                                                     *)

MaxCalls == 4        \* update_session calls per behaviour
MaxTicks == 3        \* clock advances per behaviour
TickMinutes == 15    \* minutes per clock advance
NumWorkers == 2      \* concurrent worker processes in SpecConc
MaxRequests == 2     \* collect_event requests per behaviour
MaxLookups == 2      \* enrichment calls per behaviour
MaxUses == 2         \* uses of Database.get_cursor per behaviour
MaxOrgLen == 4       \* characters of the provider's org field in SpecAsn

----------------------------------------------------------------------------
(* Values                                                                  *)

NULL == -1                       \* SQL NULL in a timestamp column
None == "None"                   \* Python None in a string position
SESSION_WINDOW == 30             \* INTERVAL '30 minutes'

\* if session_id:  -- None and the empty string are falsy
Truthy(s) == s \notin {None, ""}

----------------------------------------------------------------------------
(* Raw addresses.  An address string is held as the sequence of its parts  *)
(* between the dots (ip_address.split('.')); a part made of decimal digits *)
(* is held as its number, any other part as a negative code:               *)
(*   -1  "::1"     -2  "2001:db8::1"     -3  "::ffff:10"                   *)

AddrList ==
    << <<127, 0, 0, 1>>,        \* IPv4 loopback
       <<-1>>,                  \* "::1", IPv6 loopback
       <<10, 1, 2, 3>>,         \* 10.0.0.0/8
       <<172, 16, 0, 1>>,       \* 172.16.0.0/12, first block
       <<172, 31, 255, 254>>,   \* 172.16.0.0/12, last block
       <<192, 168, 1, 1>>,      \* 192.168.0.0/16
       <<169, 254, 0, 1>>,      \* 169.254.0.0/16
       <<8, 8, 8, 8>>,          \* public
       <<172, 32, 0, 1>>,       \* public, just above 172.16/12
       <<-2>>,                  \* "2001:db8::1", public IPv6
       <<-3, 0, 0, 1>> >>       \* "::ffff:10.0.0.1", IPv4-mapped IPv6

Addrs == {AddrList[i] : i \in DOMAIN AddrList}

AddrIndex(ip) == CHOOSE i \in DOMAIN AddrList : AddrList[i] = ip

\* hashlib.sha256(ip_address.encode()).hexdigest(): a digest that is a
\* function of the address, distinct for distinct addresses of the corpus,
\* and that does not hold the address text.
hash_ip(ip_address) == [sha256 |-> AddrIndex(ip_address)]

\* int(part) raises ValueError unless the part is decimal digits
IsDigits(part) == part >= 0

\* mutant: the 172.16.0.0/12 test stops one block early (second < 31)
is_local_ip_ShortRange(ip_address) ==
    IF ip_address = <<127, 0, 0, 1>> THEN TRUE
    ELSE IF ip_address = <<-1>> THEN TRUE
    ELSE IF Len(ip_address) = 4 /\ IsDigits(ip_address[1]) /\ IsDigits(ip_address[2])
         THEN \/ ip_address[1] = 10
              \/ ip_address[1] = 172 /\ 16 <= ip_address[2] /\ ip_address[2] < 31
              \/ ip_address[1] = 192 /\ ip_address[2] = 168
              \/ ip_address[1] = 169 /\ ip_address[2] = 254
         ELSE FALSE

is_local_ip(ip_address) ==
    IF ip_address = <<127, 0, 0, 1>> THEN TRUE
    ELSE IF ip_address = <<-1>> THEN TRUE
    ELSE IF Len(ip_address) > 1 /\ Len(ip_address) = 4
         THEN IF ~IsDigits(ip_address[1]) THEN FALSE      \* ValueError: pass
              ELSE IF ~IsDigits(ip_address[2]) THEN FALSE \* ValueError: pass
              ELSE LET first == ip_address[1]
                       second == ip_address[2]
                   IN  IF first = 10 THEN TRUE
                       ELSE IF first = 172 /\ 16 <= second /\ second <= 31 THEN TRUE
                       ELSE IF first = 192 /\ second = 168 THEN TRUE
                       ELSE IF first = 169 /\ second = 254 THEN TRUE
                       ELSE FALSE
         ELSE FALSE

----------------------------------------------------------------------------
(* Database.get_connection / get_cursor: the calls one use makes on the    *)
(* connection and the cursor, in order, and the exception that reaches the *)
(* code that wrote "with db.get_cursor() as cursor:"                       *)

\* one call (or the body of the with block) and whether it raised
Op(call, raised) == [call |-> call, raised |-> raised]

\* what may raise during a use
Faults == [connect : BOOLEAN, cursor : BOOLEAN, body : BOOLEAN, commit : BOOLEAN,
           rollback : BOOLEAN]

\* mutant: cursor.close() follows the commit instead of standing in a finally
CursorBlock_CloseAfterCommit(f) ==
    IF f.cursor
    THEN [ops |-> <<Op("conn.cursor", TRUE)>>, exception |-> "cursor"]
    ELSE IF f.body
    THEN [ops |-> <<Op("conn.cursor", FALSE), Op("body", TRUE),
                    Op("conn.rollback", f.rollback)>>,
          exception |-> IF f.rollback THEN "rollback" ELSE "body"]
    ELSE IF f.commit
    THEN [ops |-> <<Op("conn.cursor", FALSE), Op("body", FALSE),
                    Op("conn.commit", TRUE), Op("conn.rollback", f.rollback)>>,
          exception |-> IF f.rollback THEN "rollback" ELSE "commit"]
    ELSE [ops |-> <<Op("conn.cursor", FALSE), Op("body", FALSE),
                    Op("conn.commit", FALSE), Op("cursor.close", FALSE)>>,
          exception |-> "none"]

\* get_cursor inside "with self.get_connection() as conn:":
\*   cursor = conn.cursor()
\*   try: yield cursor; conn.commit()
\*   except Exception: conn.rollback(); log; raise
\*   finally: cursor.close()
CursorBlock(f) ==
    IF f.cursor
    THEN [ops |-> <<Op("conn.cursor", TRUE)>>, exception |-> "cursor"]
    ELSE LET body == <<Op("conn.cursor", FALSE), Op("body", f.body)>>
             commit == IF f.body THEN <<>> ELSE <<Op("conn.commit", f.commit)>>
             caught == f.body \/ f.commit
             rollback == IF caught THEN <<Op("conn.rollback", f.rollback)>> ELSE <<>>
         IN  [ops |-> body \o commit \o rollback \o <<Op("cursor.close", FALSE)>>,
              exception |-> IF ~caught THEN "none"
                            ELSE IF f.rollback THEN "rollback"   \* raised in the handler
                            ELSE IF f.body THEN "body"           \* raise
                            ELSE "commit"]

\* get_connection around a block:
\*   conn = None
\*   try: conn = psycopg2.connect(...); yield conn
\*   except Exception: log; raise
\*   finally: if conn: conn.close()
Connection(f, block) ==
    IF f.connect
    THEN [ops |-> <<Op("connect", TRUE)>>, exception |-> "connect"]
    ELSE [ops |-> <<Op("connect", FALSE)>> \o block.ops \o <<Op("conn.close", FALSE)>>,
          exception |-> block.exception]

get_cursor(f) == Connection(f, CursorBlock(f))

\* one "with db.get_cursor() as cursor:" block, from entry to exit
UseCursor(f) ==
    /\ Len(cursorUses) < MaxUses
    /\ cursorUses' = Append(cursorUses,
                        [faults |-> f, ops |-> get_cursor(f).ops,
                         exception |-> get_cursor(f).exception])
    /\ UNCHANGED <<addrCall, asnCall>>
    /\ UNCHANGED sessionVars
    /\ UNCHANGED ingestVars

----------------------------------------------------------------------------
(* Table sessions (init_tables): id SERIAL, hashed_ip, session_id,         *)
(* session_start DEFAULT NOW(), session_end, page_count DEFAULT 1          *)

SessionAddrs == {<<8, 8, 8, 8>>, <<10, 1, 2, 3>>}
SessionIdentities == {hash_ip(a) : a \in SessionAddrs}
SessionTokens == {None, "tok1", "tok2"}

\* WHERE session_id = %s (or hashed_ip = %s) AND session_end IS NULL
\*   AND session_start > NOW() - INTERVAL '30 minutes'
ActiveMatches(S, hashed_ip, session_id, t) ==
    {i \in DOMAIN S :
        /\ IF Truthy(session_id) THEN S[i].session_id = session_id
                                 ELSE S[i].hashed_ip = hashed_ip
        /\ S[i].session_end = NULL
        /\ S[i].session_start > t - SESSION_WINDOW}

\* ORDER BY session_start DESC LIMIT 1: the rows fetchone() may return
\* (rows with equal session_start come in no defined order)
SelectCandidates(S, hashed_ip, session_id, t) ==
    LET M == ActiveMatches(S, hashed_ip, session_id, t)
    IN  {i \in M : \A j \in M : S[j].session_start <= S[i].session_start}

\* mutant: the UPDATE writes the page_count it read, without the + 1
UpdatePageCount_NoIncrement(S, id, read_page_count) ==
    [S EXCEPT ![id].page_count = read_page_count]

\* mutant: the UPDATE also sets session_end
UpdatePageCount_EndsSession(S, id, read_page_count) ==
    [S EXCEPT ![id].page_count = read_page_count + 1, ![id].session_end = 0]

\* UPDATE sessions SET page_count = %s WHERE id = %s,
\* with (sanitize_int(session['page_count']) + 1, session['id'])
UpdatePageCount(S, id, read_page_count) ==
    [S EXCEPT ![id].page_count = read_page_count + 1]

\* mutant: the closing UPDATE finds no row
OpenRows_None(S, hashed_ip) == {}

\* the rows of: UPDATE sessions ... WHERE hashed_ip = %s AND session_end IS NULL
OpenRows(S, hashed_ip) ==
    {i \in DOMAIN S : S[i].hashed_ip = hashed_ip /\ S[i].session_end = NULL}

\* UPDATE sessions SET session_end = NOW() on the given rows
EndSessions(S, ids, t) ==
    [i \in DOMAIN S |-> IF i \in ids THEN [S[i] EXCEPT !.session_end = t] ELSE S[i]]

\* mutant: the INSERT leaves page_count to a column default of 0
InsertSession_ZeroPages(S, hashed_ip, session_id, t) ==
    Append(S, [hashed_ip |-> hashed_ip, session_id |-> session_id,
               session_start |-> t, session_end |-> NULL, page_count |-> 0])

\* INSERT INTO sessions (hashed_ip, session_id, page_count) VALUES (%s, %s, 1)
InsertSession(S, hashed_ip, session_id, t) ==
    Append(S, [hashed_ip |-> hashed_ip, session_id |-> session_id,
               session_start |-> t, session_end |-> NULL, page_count |-> 1])

\* mutant: the else branch inserts without ending the open sessions first
SessionStatements_NoClose(S, hashed_ip, session_id, t, id, read_page_count, closeIds) ==
    IF id # 0
    THEN UpdatePageCount(S, id, read_page_count)
    ELSE InsertSession(S, hashed_ip, session_id, t)

\* The statements update_session executes after its SELECT, on table S:
\* id is the row fetchone() returned (0 for no row), read_page_count its
\* page_count as the SELECT read it, closeIds the rows the closing UPDATE hits.
SessionStatements(S, hashed_ip, session_id, t, id, read_page_count, closeIds) ==
    IF id # 0
    THEN UpdatePageCount(S, id, read_page_count)
    ELSE InsertSession(EndSessions(S, closeIds, t), hashed_ip, session_id, t)

\* what fetchone() may return for the SELECT: a matching row id, else 0
FetchOne(S, hashed_ip, session_id, t) ==
    IF SelectCandidates(S, hashed_ip, session_id, t) = {}
    THEN {0}
    ELSE SelectCandidates(S, hashed_ip, session_id, t)

\* the per-row count of committed continued events, after the statements
ContinuedAfter(C, id) ==
    IF id # 0 THEN [C EXCEPT ![id] = @ + 1] ELSE Append(C, 0)

\* where a database error may strike a call that took the given branch
FailPoints(id) ==
    IF id # 0 THEN {"none", "connect", "select", "update", "commit"}
              ELSE {"none", "connect", "select", "close", "insert", "commit"}

AllFailPoints == FailPoints(0) \cup FailPoints(1)

\* what raises inside get_cursor for the failure point: a statement raises in
\* the body of the with block
FaultsOf(fail) ==
    [connect |-> fail = "connect", cursor |-> FALSE,
     body |-> fail \in {"select", "update", "close", "insert"},
     commit |-> fail = "commit", rollback |-> FALSE]

\* update_session: try: with db.get_cursor() ... except Exception as e:
\* logger.error(...).  The exception that leaves update_session, given the
\* one get_cursor raised into the try block
Escapes(exception) == "none"

\* whether the use of get_cursor committed
Committed(use) == \E i \in DOMAIN use.ops : use.ops[i] = Op("conn.commit", FALSE)

\* how a call ends for each failure point: whether its transaction commits,
\* and the exception that leaves update_session
CallEnd ==
    [fail \in AllFailPoints |->
        LET use == get_cursor(FaultsOf(fail))
        IN  [committed |-> Committed(use), raised |-> Escapes(use.exception)]]

\* the table inside the transaction when the failure point is reached: what
\* the statements executed before it have done (statements: the table after
\* all of them; closeIds: the rows the closing UPDATE ends)
ExecutedBefore(S, statements, t, id, closeIds, fail) ==
    IF fail \in {"none", "commit"} THEN statements
    ELSE IF id = 0 /\ fail = "insert" THEN EndSessions(S, closeIds, t)
    ELSE S

\* mutant: without the rollback, what was executed stays
TableAfter_NoRollback(S, executed, statements, committed) ==
    IF committed THEN statements ELSE executed

\* the committed table after the call: get_cursor commits after the body and
\* otherwise calls conn.rollback(), which undoes what was executed (after a
\* failed connect nothing was)
TableAfter(S, executed, statements, committed) ==
    IF committed THEN statements ELSE S

NoIdentity == [sha256 |-> 0]

\* a call that has returned: its arguments, the row fetchone() gave (0: none),
\* its outcome ("error": a statement or the commit failed and was logged),
\* and the exception that left the call
CallRecord(hashed_ip, session_id, id, outcome, raised) ==
    [hashed_ip |-> hashed_ip, session_id |-> session_id, id |-> id,
     outcome |-> outcome, raised |-> raised]

----------------------------------------------------------------------------
(* update_session, one call at a time: the whole call is one step.         *)
(* get_cursor commits when the body completes and rolls back when a        *)
(* statement or the commit raises; update_session logs the exception.      *)

UpdateSessionCall(hashed_ip, session_id) ==
    /\ calls < MaxCalls
    /\ \E id \in FetchOne(sessions, hashed_ip, session_id, now) :
       \E fail \in FailPoints(id) :
          LET committed == CallEnd[fail].committed
              closeIds == OpenRows(sessions, hashed_ip)
              statements == SessionStatements(sessions, hashed_ip, session_id, now,
                                id, IF id # 0 THEN sessions[id].page_count ELSE 0,
                                closeIds)
              executed == ExecutedBefore(sessions, statements, now, id, closeIds, fail)
          IN  /\ sessions' = TableAfter(sessions, executed, statements, committed)
              /\ continued' = IF committed THEN ContinuedAfter(continued, id)
                                           ELSE continued
              /\ lastCall' = CallRecord(hashed_ip, session_id, id,
                                 IF ~committed THEN "error"
                                 ELSE IF id # 0 THEN "continued" ELSE "created",
                                 CallEnd[fail].raised)
    /\ calls' = calls + 1
    /\ UNCHANGED <<now, txn>>
    /\ UNCHANGED ingestVars
    /\ UNCHANGED auxVars

Tick ==
    /\ now < MaxTicks * TickMinutes
    /\ now' = now + TickMinutes
    /\ UNCHANGED <<sessions, continued, calls, lastCall, txn>>
    /\ UNCHANGED ingestVars
    /\ UNCHANGED auxVars

----------------------------------------------------------------------------
(* update_session in several worker processes: each call is a transaction  *)
(* whose statements interleave with the other workers' (READ COMMITTED:    *)
(* a statement sees committed rows; an UPDATE holds its rows' locks until  *)
(* the transaction ends, and a second UPDATE of a locked row waits).       *)

Workers == 1..NumWorkers
WorkerTokens == {None, "tok1"}

IdleTxn == [pc |-> "idle", hashed_ip |-> NoIdentity, session_id |-> None,
            t |-> 0, id |-> 0, page_count |-> 0, closed |-> {}, seen |-> 0]

\* rows whose lock worker w holds
LockedBy(w) ==
    IF txn[w].pc = "updated" THEN {txn[w].id}
    ELSE IF txn[w].pc \in {"closed", "inserted"} THEN txn[w].closed
    ELSE {}

LockedByOthers(w) == UNION {LockedBy(v) : v \in Workers \ {w}}

OpenTxns == {w \in Workers : txn[w].pc # "idle"}

\* with db.get_cursor() as cursor: cursor.execute(SELECT ...); fetchone()
TxSelect(w, hashed_ip, session_id) ==
    /\ txn[w].pc = "idle"
    /\ calls + Cardinality(OpenTxns) < MaxCalls
    /\ \E id \in FetchOne(sessions, hashed_ip, session_id, now) :
          txn' = [txn EXCEPT ![w] =
                    [pc |-> "selected", hashed_ip |-> hashed_ip,
                     session_id |-> session_id, t |-> now, id |-> id,
                     page_count |-> IF id # 0 THEN sessions[id].page_count ELSE 0,
                     closed |-> {}, seen |-> Len(sessions)]]
    /\ UNCHANGED <<sessions, continued, now, calls, lastCall>>
    /\ UNCHANGED ingestVars
    /\ UNCHANGED auxVars

\* if session: UPDATE sessions SET page_count = %s WHERE id = %s
TxUpdate(w) ==
    /\ txn[w].pc = "selected"
    /\ txn[w].id # 0
    /\ txn[w].id \notin LockedByOthers(w)
    /\ txn' = [txn EXCEPT ![w].pc = "updated"]
    /\ UNCHANGED <<sessions, continued, now, calls, lastCall>>
    /\ UNCHANGED ingestVars
    /\ UNCHANGED auxVars

\* else: UPDATE sessions SET session_end = NOW() WHERE hashed_ip = %s AND session_end IS NULL
\* The statement finds its rows in the table as committed when it starts;
\* when another transaction holds the lock of one of them it waits.
TxClose(w) ==
    /\ txn[w].pc = "selected"
    /\ txn[w].id = 0
    /\ LET targets == OpenRows(sessions, txn[w].hashed_ip)
       IN  txn' = [txn EXCEPT ![w].pc = IF targets \cap LockedByOthers(w) = {}
                                        THEN "closed" ELSE "close_waiting",
                              ![w].closed = targets]
    /\ UNCHANGED <<sessions, continued, now, calls, lastCall>>
    /\ UNCHANGED ingestVars
    /\ UNCHANGED auxVars

\* the locks are released: the waiting UPDATE looks again at the rows it had
\* found, in their committed version, and ends those that are still open; a
\* row committed after the statement started is not among them
TxCloseResume(w) ==
    /\ txn[w].pc = "close_waiting"
    /\ txn[w].closed \cap LockedByOthers(w) = {}
    /\ txn' = [txn EXCEPT ![w].pc = "closed",
                          ![w].closed = {i \in txn[w].closed :
                                            sessions[i].session_end = NULL}]
    /\ UNCHANGED <<sessions, continued, now, calls, lastCall>>
    /\ UNCHANGED ingestVars
    /\ UNCHANGED auxVars

\* INSERT INTO sessions (hashed_ip, session_id, page_count) VALUES (%s, %s, 1)
TxInsert(w) ==
    /\ txn[w].pc = "closed"
    /\ txn' = [txn EXCEPT ![w].pc = "inserted"]
    /\ UNCHANGED <<sessions, continued, now, calls, lastCall>>
    /\ UNCHANGED ingestVars
    /\ UNCHANGED auxVars

\* get_cursor: conn.commit() after the body
TxCommit(w) ==
    /\ txn[w].pc \in {"updated", "inserted"}
    /\ sessions' = SessionStatements(sessions, txn[w].hashed_ip, txn[w].session_id,
                       txn[w].t, txn[w].id, txn[w].page_count, txn[w].closed)
    /\ continued' = ContinuedAfter(continued, txn[w].id)
    /\ calls' = calls + 1
    /\ txn' = [txn EXCEPT ![w] = IdleTxn]
    /\ UNCHANGED <<now, lastCall>>
    /\ UNCHANGED ingestVars
    /\ UNCHANGED auxVars

\* get_cursor: a statement or the commit raised: conn.rollback(), re-raise;
\* update_session: except Exception: logger.error
TxRollback(w) ==
    /\ txn[w].pc # "idle"
    /\ calls' = calls + 1
    /\ txn' = [txn EXCEPT ![w] = IdleTxn]
    /\ UNCHANGED <<sessions, continued, now, lastCall>>
    /\ UNCHANGED ingestVars
    /\ UNCHANGED auxVars

----------------------------------------------------------------------------
(* IP metadata: the dict get_ip_metadata returns, read by collect_event    *)
(* through .get("country") and .get("asn")                                 *)

AsnNone == -1                    \* Python None in the asn position

Metadata(country, asn) == [country |-> country, asn |-> asn]
MetaNone == Metadata(None, AsnNone)

\* truthiness of metadata["asn"]: None and 0 are falsy
TruthyInt(n) == n \notin {AsnNone, 0}

\* characters of an org string
IsDigitChar(c) == c \in {"0", "1", "2", "3", "4", "5", "6", "7", "8", "9"}

DigitValue(c) ==
    CASE c = "0" -> 0 [] c = "1" -> 1 [] c = "2" -> 2 [] c = "3" -> 3
      [] c = "4" -> 4 [] c = "5" -> 5 [] c = "6" -> 6 [] c = "7" -> 7
      [] c = "8" -> 8 [] c = "9" -> 9

\* int(match.group(1)): the digits of org from position j on, after value acc
RECURSIVE IntOfDigits(_, _, _)
IntOfDigits(org, j, acc) ==
    IF j <= Len(org) /\ IsDigitChar(org[j])
    THEN IntOfDigits(org, j + 1, 10 * acc + DigitValue(org[j]))
    ELSE acc

\* re.search(r'AS(\d+)', org): the positions where the pattern matches
AsnMatches(org) ==
    {i \in 1..(Len(org) - 2) :
        org[i] = "A" /\ org[i + 1] = "S" /\ IsDigitChar(org[i + 2])}

\* get_ip_metadata: org = data.get("org", ""); if org: match = re.search(...)
ParseAsn(org) ==
    IF org = <<>> THEN AsnNone
    ELSE IF AsnMatches(org) = {} THEN AsnNone
    ELSE LET i == CHOOSE k \in AsnMatches(org) : \A m \in AsnMatches(org) : k <= m
         IN  IntOfDigits(org, i + 2, 0)

ORG_GOOGLE == <<"A", "S", "1", "5", "1", "6", "9", " ", "G", "o", "o", "g", "l", "e",
                " ", "L", "L", "C">>
ORG_NO_ASN == <<"G", "o", "o", "g", "l", "e">>
ORG_EMPTY == <<>>

\* what the provider call may give: an HTTP response (status, and for 200
\* the body's country and org, or a body that is no JSON), or an exception
\* of the HTTP client (timeout, connection refused)
ProviderReplies ==
    {[kind |-> "response", status |-> 200, json |-> TRUE, country |-> c, org |-> o] :
        c \in {"US", None}, o \in {ORG_GOOGLE, ORG_NO_ASN, ORG_EMPTY}}
    \cup {[kind |-> "response", status |-> 200, json |-> FALSE, country |-> None,
           org |-> ORG_EMPTY]}
    \cup {[kind |-> "response", status |-> st, json |-> TRUE, country |-> None,
           org |-> ORG_EMPTY] : st \in {429, 403, 500}}
    \cup {[kind |-> "exception", status |-> 0, json |-> FALSE, country |-> None,
           org |-> ORG_EMPTY]}

\* get_ip_metadata after the local check: the metadata for a provider reply
MetadataFromReply(reply) ==
    IF reply.kind = "exception" THEN MetaNone              \* except Exception
    ELSE IF reply.status = 200
         THEN IF ~reply.json THEN MetaNone                 \* res.json() raises
              ELSE Metadata(reply.country, ParseAsn(reply.org))
         ELSE MetaNone                                     \* 429, 403, other

\* get_ip_metadata before any network use
LocalMetadata == Metadata("Local", AsnNone)

\* json.dumps(metadata): the JSON text, held as its value tokens
JsonOfStr(v) == IF v = None THEN [t |-> "null"] ELSE [t |-> "string", s |-> v]
JsonOfInt(v) == IF v = AsnNone THEN [t |-> "null"] ELSE [t |-> "number", n |-> v]

serialize_metadata(metadata) ==
    <<JsonOfStr(metadata.country), JsonOfInt(metadata.asn)>>

\* json.loads(metadata_str); a JSONDecodeError gives {} (both .get() None)
StrOfJson(j) == IF j.t = "string" THEN j.s ELSE None

\* mutant: a JSON null in the asn position is read as 0
IntOfJson_NullIsZero(j) == IF j.t = "number" THEN j.n ELSE 0

IntOfJson(j) == IF j.t = "number" THEN j.n ELSE AsnNone

deserialize_metadata(metadata_str) ==
    IF Len(metadata_str) # 2 THEN MetaNone
    ELSE Metadata(StrOfJson(metadata_str[1]), IntOfJson(metadata_str[2]))

----------------------------------------------------------------------------
(* Redis: RedisClient.get / set                                            *)

NoEntry == <<>>
CacheKeys == {hash_ip(a) : a \in Addrs}

\* mutant: get lets the transport error reach the caller
RedisGet_Raises(c, key, transport_fails) ==
    IF transport_fails THEN <<[t |-> "exception"]>> ELSE c[key]

\* RedisClient.get: client.get(key), None on any exception
RedisGet(c, key, transport_fails) ==
    IF transport_fails THEN NoEntry ELSE c[key]

\* RedisClient.set: client.setex(key, ttl_seconds, value), no-op on any exception
RedisSet(c, key, value, transport_fails) ==
    IF transport_fails THEN c ELSE [c EXCEPT ![key] = value]

\* an exception object in the place of a return value
IsException(v) == v = <<[t |-> "exception"]>>

\* mutant: every resolver result is cached
ShouldCache_Always(metadata) == TRUE

\* get_ip_metadata_cached: if metadata["country"] or metadata["asn"]
ShouldCache(metadata) == Truthy(metadata.country) \/ TruthyInt(metadata.asn)

\* get_ip_metadata_cached after the resolver returned: the cache fill
CacheFill(c, hashed_ip, metadata, set_fails) ==
    IF ShouldCache(metadata)
    THEN RedisSet(c, hashed_ip, serialize_metadata(metadata), set_fails)
    ELSE c

----------------------------------------------------------------------------
(* get_ip_metadata_cached                                                  *)

\* mutant: the cached entry is not looked at, every call resolves
EnrichmentPath_IgnoresCache(c, ip_address, get_fails) ==
    IF is_local_ip(ip_address) THEN "local" ELSE "provider"

\* how far get_ip_metadata_cached runs before it first awaits the network
EnrichmentPath(c, ip_address, get_fails) ==
    LET cached == RedisGet(c, hash_ip(ip_address), get_fails)
    IN  IF IsException(cached) THEN "raised"       \* the exception leaves the function
        ELSE IF cached # NoEntry THEN "hit"        \* if cached: return deserialize
        ELSE IF is_local_ip(ip_address) THEN "local"
        ELSE "provider"                            \* res = await client.get(url)

\* one enrichment call: the entry point (via), the keys under which it read
\* or wrote the cache, the entry the cache held under its key when it began
\* (found), whether its cache read failed, the calls of get_ip_metadata it
\* made, the HTTP requests it sent and the answers it got
NewLookup(ip_address, via, keys, found, get_failed) ==
    [ip |-> ip_address, via |-> via, keys |-> keys, cache_client |-> keys # {},
     found |-> found, get_failed |-> get_failed,
     pc |-> "start", hit |-> FALSE, metadata |-> MetaNone,
     resolver_calls |-> 0, provider_requests |-> 0, answers |-> 0,
     wrote |-> FALSE, cache_before |-> found, cache_after |-> NoEntry]

\* a call of get_ip_metadata_cached, up to its return or to the await of
\* the provider's answer
Lookup(ip_address, get_fails, set_fails) ==
    /\ Len(lookups) < MaxLookups
    /\ LET hashed_ip == hash_ip(ip_address)
           path == EnrichmentPath(cache, ip_address, get_fails)
           l0 == NewLookup(ip_address, "get_ip_metadata_cached", {hashed_ip},
                           cache[hashed_ip], get_fails)
       IN  CASE path = "raised" ->
                  /\ lookups' = Append(lookups, [l0 EXCEPT !.pc = "raised"])
                  /\ UNCHANGED <<cache, resolverCalls>>
             [] path = "hit" ->
                  /\ lookups' = Append(lookups,
                        [l0 EXCEPT !.pc = "returned", !.hit = TRUE,
                                   !.metadata = deserialize_metadata(cache[hashed_ip]),
                                   !.cache_after = cache[hashed_ip]])
                  /\ UNCHANGED <<cache, resolverCalls>>
             [] path = "local" ->
                  /\ cache' = CacheFill(cache, hashed_ip, LocalMetadata, set_fails)
                  /\ lookups' = Append(lookups,
                        [l0 EXCEPT !.pc = "returned", !.metadata = LocalMetadata,
                                   !.resolver_calls = 1,
                                   !.wrote = ShouldCache(LocalMetadata) /\ ~set_fails,
                                   !.cache_after = cache'[hashed_ip]])
                  /\ UNCHANGED resolverCalls
             [] path = "provider" ->
                  /\ resolverCalls' = [resolverCalls EXCEPT ![AddrIndex(ip_address)] = @ + 1]
                  /\ lookups' = Append(lookups,
                        [l0 EXCEPT !.pc = "awaiting_provider", !.resolver_calls = 1,
                                   !.provider_requests = 1])
                  /\ UNCHANGED cache
    /\ UNCHANGED <<events, reqs>>
    /\ UNCHANGED sessionVars
    /\ UNCHANGED auxVars

\* the provider's answer arrives: the rest of get_ip_metadata and the cache fill
LookupAnswer(l, reply, set_fails) ==
    /\ lookups[l].pc = "awaiting_provider"
    /\ lookups[l].via = "get_ip_metadata_cached"
    /\ LET metadata == MetadataFromReply(reply)
           hashed_ip == hash_ip(lookups[l].ip)
       IN  /\ cache' = CacheFill(cache, hashed_ip, metadata, set_fails)
           /\ lookups' = [lookups EXCEPT ![l].pc = "returned",
                                         ![l].metadata = metadata,
                                         ![l].answers = @ + 1,
                                         ![l].wrote = ShouldCache(metadata) /\ ~set_fails,
                                         ![l].cache_before = cache[hashed_ip],
                                         ![l].cache_after = cache'[hashed_ip]]
    /\ UNCHANGED <<events, reqs, resolverCalls>>
    /\ UNCHANGED sessionVars
    /\ UNCHANGED auxVars

\* Redis drops an entry when its TTL (setex) runs out
CacheExpire(key) ==
    /\ cache[key] # NoEntry
    /\ cache' = [cache EXCEPT ![key] = NoEntry]
    /\ UNCHANGED <<events, reqs, resolverCalls, lookups>>
    /\ UNCHANGED sessionVars
    /\ UNCHANGED auxVars

----------------------------------------------------------------------------
(* IPUtils.get_cached_or_fetch                                             *)

FetchAddrs == {<<8, 8, 8, 8>>, <<10, 1, 2, 3>>}

\* cache_key = f"ip_metadata:{ip_address}"
RawKey(ip_address) == [prefix |-> "ip_metadata:", ip |-> ip_address]

RawKeys == {RawKey(a) : a \in FetchAddrs}

\* if cache_client: try: cached_data = await cache_client.get(cache_key)
\* except Exception: logged; the call goes on as on a miss
CachedData(c, cache_key, cache_client, get_fails) ==
    IF cache_client /\ ~get_fails THEN c[cache_key] ELSE NoEntry

\* if cache_client and metadata.get("country"): try: setex(cache_key, ...)
\* except Exception: logged.  Whether the entry is written:
FetchWrites(metadata, cache_client, set_fails) ==
    cache_client /\ Truthy(metadata.country) /\ ~set_fails

FetchFill(c, cache_key, metadata, cache_client, set_fails) ==
    IF FetchWrites(metadata, cache_client, set_fails)
    THEN [c EXCEPT ![cache_key] = serialize_metadata(metadata)]
    ELSE c

\* a call of get_cached_or_fetch, up to its return or to the await of the
\* provider's answer; cache_client tells whether a client was passed
FetchLookup(ip_address, cache_client, get_fails, set_fails) ==
    /\ Len(lookups) < MaxLookups
    /\ LET cache_key == RawKey(ip_address)
           cached_data == CachedData(cache, cache_key, cache_client, get_fails)
           l0 == NewLookup(ip_address, "get_cached_or_fetch",
                           IF cache_client THEN {cache_key} ELSE {},
                           cache[cache_key], get_fails)
       IN  IF cached_data # NoEntry
           THEN /\ lookups' = Append(lookups,
                      [l0 EXCEPT !.pc = "returned", !.hit = TRUE,
                                 !.metadata = deserialize_metadata(cached_data),
                                 !.cache_after = cache[cache_key]])
                /\ UNCHANGED <<cache, resolverCalls>>
           ELSE IF is_local_ip(ip_address)
           THEN /\ cache' = FetchFill(cache, cache_key, LocalMetadata, cache_client,
                                      set_fails)
                /\ lookups' = Append(lookups,
                      [l0 EXCEPT !.pc = "returned", !.metadata = LocalMetadata,
                                 !.resolver_calls = 1,
                                 !.wrote = FetchWrites(LocalMetadata, cache_client,
                                                       set_fails),
                                 !.cache_after = cache'[cache_key]])
                /\ UNCHANGED resolverCalls
           ELSE /\ resolverCalls' = [resolverCalls EXCEPT ![AddrIndex(ip_address)] = @ + 1]
                /\ lookups' = Append(lookups,
                      [l0 EXCEPT !.pc = "awaiting_provider", !.resolver_calls = 1,
                                 !.provider_requests = 1])
                /\ UNCHANGED cache
    /\ UNCHANGED <<events, reqs>>
    /\ UNCHANGED sessionVars
    /\ UNCHANGED auxVars

\* the provider's answer arrives: the rest of get_ip_metadata and the setex
FetchAnswer(l, reply, set_fails) ==
    /\ lookups[l].pc = "awaiting_provider"
    /\ lookups[l].via = "get_cached_or_fetch"
    /\ LET metadata == MetadataFromReply(reply)
           cache_key == RawKey(lookups[l].ip)
       IN  /\ cache' = FetchFill(cache, cache_key, metadata, lookups[l].cache_client,
                                 set_fails)
           /\ lookups' = [lookups EXCEPT ![l].pc = "returned",
                                         ![l].metadata = metadata,
                                         ![l].answers = @ + 1,
                                         ![l].wrote = FetchWrites(metadata,
                                                       lookups[l].cache_client, set_fails),
                                         ![l].cache_before = cache[cache_key],
                                         ![l].cache_after = cache'[cache_key]]
    /\ UNCHANGED <<events, reqs, resolverCalls>>
    /\ UNCHANGED sessionVars
    /\ UNCHANGED auxVars

----------------------------------------------------------------------------
(* collect_event                                                           *)

ClientAddrs == {<<10, 1, 2, 3>>, <<8, 8, 8, 8>>}
ClientTokens == {None, "tok1"}
UserAgents == {None, "Mozilla/5.0 (iPhone) Safari"}

\* parse_user_agent: the parsed fields, all None when parsing raises
parse_user_agent(user_agent, parse_fails) ==
    IF parse_fails THEN [device |-> None] ELSE [device |-> "mobile"]

\* user_agent_info = {}; if event.user_agent: parse_user_agent(...)
UserAgentInfo(user_agent, parse_fails) ==
    IF Truthy(user_agent) THEN parse_user_agent(user_agent, parse_fails)
    ELSE [device |-> None]

\* INSERT INTO events (hashed_ip, country, asn, device, ...)
EventRow(hashed_ip, metadata, user_agent_info) ==
    [hashed_ip |-> hashed_ip, country |-> metadata.country, asn |-> metadata.asn,
     device |-> user_agent_info.device]

DbHandle == [db |-> "Database"]

\* the parameters of update_session(hashed_ip, session_id, db)
UpdateSessionParams == <<"hashed_ip", "session_id", "db">>

\* background_tasks.add_task(update_session, hashed_ip, db): the arguments
TaskArgs(hashed_ip, session_id) == <<hashed_ip, DbHandle>>

NewRequest(ip, session_id, user_agent) ==
    [ip |-> ip, session_id |-> session_id, user_agent |-> user_agent,
     pc |-> "start", status |-> "pending", hit |-> FALSE, resolver |-> "not_called",
     degraded |-> {}, persist |-> "none", row |-> 0,
     task |-> "none", task_args |-> <<>>]

\* the request when an exception left the try block before the database
\* was used: except Exception: raise HTTPException(500)
Failed(req) == [req EXCEPT !.pc = "responded", !.status = "error500"]

DbFaults == {"none", "insert", "commit"}

\* mutant: add_task is called before the with block, so the session update
\* is scheduled whether or not the Event row gets committed
Responded_SchedulesFirst(req, ua_fails, db_fault, E) ==
    LET r1 == [req EXCEPT !.pc = "responded", !.task = "scheduled",
                          !.task_args = TaskArgs(hash_ip(req.ip), req.session_id),
                          !.degraded = @ \cup (IF Truthy(req.user_agent) /\ ua_fails
                                               THEN {"user_agent"} ELSE {})]
    IN  IF db_fault = "none"
        THEN [r1 EXCEPT !.status = "ok", !.persist = "committed", !.row = Len(E) + 1]
        ELSE [r1 EXCEPT !.status = "error500", !.persist = "rolled_back"]

\* steps 3 to 5 of collect_event and the response, for a request whose
\* enrichment has returned: the request afterwards (E is table events before)
Responded(req, ua_fails, db_fault, E) ==
    LET r1 == [req EXCEPT !.pc = "responded",
                          !.degraded = @ \cup (IF Truthy(req.user_agent) /\ ua_fails
                                               THEN {"user_agent"} ELSE {})]
    IN  IF db_fault = "none"
        THEN [r1 EXCEPT !.status = "ok", !.persist = "committed", !.row = Len(E) + 1,
                        !.task = "scheduled",
                        !.task_args = TaskArgs(hash_ip(req.ip), req.session_id)]
        ELSE [r1 EXCEPT !.status = "error500", !.persist = "rolled_back"]

\* mutant: the INSERT is committed by itself (autocommit) and survives the
\* failure of the commit
EventsAfter_Autocommit(req, metadata, ua_fails, db_fault, E) ==
    IF db_fault \in {"none", "commit"}
    THEN Append(E, EventRow(hash_ip(req.ip), metadata,
                            UserAgentInfo(req.user_agent, ua_fails)))
    ELSE E

\* table events after the same steps: get_cursor commits the INSERT when
\* the block completes and rolls it back when the INSERT or the commit raises
EventsAfter(req, metadata, ua_fails, db_fault, E) ==
    IF db_fault = "none"
    THEN Append(E, EventRow(hash_ip(req.ip), metadata,
                            UserAgentInfo(req.user_agent, ua_fails)))
    ELSE E

\* POST /collect up to the response, or up to the await of the provider's
\* answer (the only point where the event loop runs another request)
CollectEvent(ip, session_id, user_agent, get_fails, set_fails, ua_fails, db_fault) ==
    /\ Len(reqs) < MaxRequests
    /\ LET hashed_ip == hash_ip(ip)
           path == EnrichmentPath(cache, ip, get_fails)
           r0 == [NewRequest(ip, session_id, user_agent) EXCEPT
                     !.degraded = IF get_fails THEN {"cache_get"} ELSE {}]
       IN  CASE path = "raised" ->
                  /\ reqs' = Append(reqs, Failed(r0))
                  /\ UNCHANGED <<cache, events, resolverCalls>>
             [] path = "hit" ->
                  /\ reqs' = Append(reqs, Responded([r0 EXCEPT !.hit = TRUE],
                                                    ua_fails, db_fault, events))
                  /\ events' = EventsAfter(r0, deserialize_metadata(cache[hashed_ip]),
                                           ua_fails, db_fault, events)
                  /\ UNCHANGED <<cache, resolverCalls>>
             [] path = "local" ->
                  /\ cache' = CacheFill(cache, hashed_ip, LocalMetadata, set_fails)
                  /\ reqs' = Append(reqs, Responded(
                                 [r0 EXCEPT !.degraded = @ \cup (IF set_fails
                                                THEN {"cache_set"} ELSE {})],
                                 ua_fails, db_fault, events))
                  /\ events' = EventsAfter(r0, LocalMetadata, ua_fails, db_fault, events)
                  /\ UNCHANGED resolverCalls
             [] path = "provider" ->
                  /\ resolverCalls' = [resolverCalls EXCEPT ![AddrIndex(ip)] = @ + 1]
                  /\ reqs' = Append(reqs, [r0 EXCEPT !.pc = "awaiting_provider",
                                                     !.resolver = "pending"])
                  /\ UNCHANGED <<cache, events>>
    /\ UNCHANGED lookups
    /\ UNCHANGED sessionVars
    /\ UNCHANGED auxVars

\* whether the provider call gave no usable answer
ReplyFailed(reply) == reply.kind = "exception" \/ reply.status # 200 \/ ~reply.json

\* the provider's answer arrives: the rest of get_ip_metadata, the cache
\* fill, and steps 3 to 5 of collect_event
ProviderAnswer(r, reply, set_fails, ua_fails, db_fault) ==
    /\ reqs[r].pc = "awaiting_provider"
    /\ LET metadata == MetadataFromReply(reply)
           r0 == [reqs[r] EXCEPT
                    !.resolver = IF ReplyFailed(reply) THEN "failed" ELSE "answered",
                    !.degraded = @ \cup (IF ReplyFailed(reply) THEN {"resolver"} ELSE {})
                                   \cup (IF ShouldCache(metadata) /\ set_fails
                                         THEN {"cache_set"} ELSE {})]
       IN  /\ cache' = CacheFill(cache, hash_ip(reqs[r].ip), metadata, set_fails)
           /\ reqs' = [reqs EXCEPT ![r] = Responded(r0, ua_fails, db_fault, events)]
           /\ events' = EventsAfter(r0, metadata, ua_fails, db_fault, events)
    /\ UNCHANGED <<resolverCalls, lookups>>
    /\ UNCHANGED sessionVars
    /\ UNCHANGED auxVars

\* Starlette runs the scheduled task after the response: update_session(*args).
\* With fewer arguments than parameters the call raises TypeError before the
\* body runs; otherwise the body runs as one step of the event loop.
RunBackgroundTask(r) ==
    /\ reqs[r].task = "scheduled"
    /\ LET args == reqs[r].task_args
       IN  IF Len(args) # Len(UpdateSessionParams)
           THEN /\ reqs' = [reqs EXCEPT ![r].task = "raised"]
                /\ UNCHANGED <<sessions, continued>>
           ELSE /\ reqs' = [reqs EXCEPT ![r].task = "done"]
                /\ \E id \in FetchOne(sessions, args[1], args[2], now) :
                   \E fail \in FailPoints(id) :
                      IF fail = "none"
                      THEN /\ sessions' = SessionStatements(sessions, args[1], args[2],
                                   now, id,
                                   IF id # 0 THEN sessions[id].page_count ELSE 0,
                                   OpenRows(sessions, args[1]))
                           /\ continued' = ContinuedAfter(continued, id)
                      ELSE UNCHANGED <<sessions, continued>>
    /\ UNCHANGED <<now, calls, lastCall, txn>>
    /\ UNCHANGED <<cache, events, resolverCalls, lookups>>
    /\ UNCHANGED auxVars

----------------------------------------------------------------------------
(* Application startup and the read-only endpoints                         *)

\* lifespan: init_tables() in a try whose except only logs.  init_tables runs
\* DROP TABLE IF EXISTS events / ip_cache / sessions CASCADE and the CREATE
\* statements in one get_cursor transaction: committed, the tables are
\* empty; when a statement or the commit raises, the rollback leaves them
\* as they were and the application starts all the same.
Startup(db_fails) ==
    /\ IF db_fails
       THEN UNCHANGED <<sessions, continued, events>>
       ELSE /\ sessions' = <<>>
            /\ continued' = <<>>
            /\ events' = <<>>
    /\ UNCHANGED <<now, calls, lastCall, txn>>
    /\ UNCHANGED <<cache, reqs, resolverCalls, lookups>>
    /\ UNCHANGED auxVars

\* GET /health: redis ping and SELECT 1; 503 when either raises
HealthCheck(redis_fails, db_fails) ==
    /\ UNCHANGED vars

\* GET /stats: SELECT COUNT(*) ... FROM events, four read-only queries
GetStats(db_fails) ==
    /\ UNCHANGED vars

----------------------------------------------------------------------------
(* get_ip_address.  A header value or host is held as the sequence of its  *)
(* characters; the characters "1" .. "5" each stand for the text of one    *)
(* address.                                                                *)

\* a header of the request: request.headers.get(name) is None when the
\* header is absent
Header(value) == [present |-> TRUE, value |-> value]
AbsentHeader == [present |-> FALSE, value |-> <<>>]

\* if cf_ip:  -- None and the empty string are falsy
TruthyHeader(h) == h.present /\ h.value # <<>>

\* str.strip(): the string without its leading and trailing whitespace
RECURSIVE LStrip(_)
LStrip(str) ==
    IF str # <<>> /\ Head(str) = " " THEN LStrip(Tail(str)) ELSE str

RECURSIVE RStrip(_)
RStrip(str) ==
    IF str # <<>> /\ str[Len(str)] = " " THEN RStrip(SubSeq(str, 1, Len(str) - 1))
    ELSE str

Strip(str) == RStrip(LStrip(str))

\* str.split(",")[0]: the text before the first comma, the whole without one
RECURSIVE FirstField(_)
FirstField(str) ==
    IF str = <<>> \/ Head(str) = "," THEN <<>>
    ELSE <<Head(str)>> \o FirstField(Tail(str))

\* mutant: x-forwarded-for is looked at before cf-connecting-ip
get_ip_address_ForwardedFirst(request) ==
    IF TruthyHeader(request.xff) THEN Strip(FirstField(request.xff.value))
    ELSE IF TruthyHeader(request.cf) THEN Strip(request.cf.value)
    ELSE request.client_host

get_ip_address(request) ==
    LET cf_ip == request.cf
        xff == request.xff
    IN  IF TruthyHeader(cf_ip) THEN Strip(cf_ip.value)
        ELSE IF TruthyHeader(xff) THEN Strip(FirstField(xff.value))
        ELSE request.client_host

CfValues == {AbsentHeader, Header(<<>>), Header(<<" ">>), Header(<<"1">>),
             Header(<<" ", "1", " ">>)}
XffValues == {AbsentHeader, Header(<<>>), Header(<<"2">>), Header(<<"2", ",", "3">>),
              Header(<<" ", "2", " ", ",", " ", "3">>), Header(<<",", "3">>)}
ClientHosts == {<<"4">>, <<"5">>}

Requests == [cf : CfValues, xff : XffValues, client_host : ClientHosts]

NoAddrCall == [request |-> [cf |-> AbsentHeader, xff |-> AbsentHeader,
                            client_host |-> <<>>],
               pc |-> "none", result |-> <<>>]

\* ip_address = get_ip_address(request)
GetIpAddress ==
    /\ addrCall.pc = "received"
    /\ addrCall' = [addrCall EXCEPT !.pc = "returned",
                                    !.result = get_ip_address(addrCall.request)]
    /\ UNCHANGED <<cursorUses, asnCall>>
    /\ UNCHANGED sessionVars
    /\ UNCHANGED ingestVars

----------------------------------------------------------------------------
(* get_ip_metadata on the org field                                        *)

\* characters of the org strings: the letters of the pattern, digits, a
\* blank and another letter
OrgChars == {"A", "S", "0", "1", " ", "G"}

\* data.get("org", ""): every string over OrgChars up to MaxOrgLen, the
\* empty string (also the default of an absent field) included
Orgs == UNION {[1..n -> OrgChars] : n \in 0..MaxOrgLen}

NoAsnCall == [org |-> <<>>, pc |-> "none", asn |-> AsnNone]

\* get_ip_metadata for a public address whose provider answer is 200 with
\* this org: the asn of the metadata returned
ResolveAsn ==
    /\ asnCall.pc = "received"
    /\ asnCall' = [asnCall EXCEPT
                     !.pc = "returned",
                     !.asn = MetadataFromReply([kind |-> "response", status |-> 200,
                                                json |-> TRUE, country |-> "US",
                                                org |-> asnCall.org]).asn]
    /\ UNCHANGED <<cursorUses, addrCall>>
    /\ UNCHANGED sessionVars
    /\ UNCHANGED ingestVars

----------------------------------------------------------------------------
(* Initial states and specifications                                       *)

\* the tables, the cache and the logs after the application's construction
InitStores ==
    /\ sessions = <<>>
    /\ continued = <<>>
    /\ now = 0
    /\ calls = 0
    /\ lastCall = CallRecord(NoIdentity, None, 0, "none", "none")
    /\ txn = [w \in Workers |-> IdleTxn]
    /\ cache = [k \in CacheKeys \cup RawKeys |-> NoEntry]
    /\ events = <<>>
    /\ reqs = <<>>
    /\ resolverCalls = [i \in DOMAIN AddrList |-> 0]
    /\ lookups = <<>>
    /\ cursorUses = <<>>

Init ==
    /\ InitStores
    /\ addrCall = NoAddrCall
    /\ asnCall = NoAsnCall

\* a request has arrived, with any headers of the corpus
InitAddr ==
    /\ InitStores
    /\ addrCall \in {[request |-> r, pc |-> "received", result |-> <<>>] : r \in Requests}
    /\ asnCall = NoAsnCall

\* the provider has answered 200, with any org string of the corpus
InitAsn ==
    /\ InitStores
    /\ addrCall = NoAddrCall
    /\ asnCall \in {[org |-> o, pc |-> "received", asn |-> AsnNone] : o \in Orgs}

NextSeq ==
    \/ \E h \in SessionIdentities, tok \in SessionTokens : UpdateSessionCall(h, tok)
    \/ Tick

SpecSeq == Init /\ [][NextSeq]_vars

NextConc ==
    \/ \E w \in Workers, h \in SessionIdentities, tok \in WorkerTokens :
          TxSelect(w, h, tok)
    \/ \E w \in Workers : TxUpdate(w)
    \/ \E w \in Workers : TxClose(w)
    \/ \E w \in Workers : TxCloseResume(w)
    \/ \E w \in Workers : TxInsert(w)
    \/ \E w \in Workers : TxCommit(w)
    \/ \E w \in Workers : TxRollback(w)
    \/ Tick

SpecConc == Init /\ [][NextConc]_vars

Next ==
    \/ \E ip \in ClientAddrs, tok \in ClientTokens, ua \in UserAgents,
          get_fails \in BOOLEAN, set_fails \in BOOLEAN, ua_fails \in BOOLEAN,
          db_fault \in DbFaults :
          CollectEvent(ip, tok, ua, get_fails, set_fails, ua_fails, db_fault)
    \/ \E r \in DOMAIN reqs, reply \in ProviderReplies,
          set_fails \in BOOLEAN, ua_fails \in BOOLEAN, db_fault \in DbFaults :
          ProviderAnswer(r, reply, set_fails, ua_fails, db_fault)
    \/ \E r \in DOMAIN reqs : RunBackgroundTask(r)
    \/ \E key \in CacheKeys : CacheExpire(key)

Spec == Init /\ [][Next]_vars

NextEnrich ==
    \/ \E ip \in Addrs, get_fails \in BOOLEAN, set_fails \in BOOLEAN :
          Lookup(ip, get_fails, set_fails)
    \/ \E l \in DOMAIN lookups, reply \in ProviderReplies, set_fails \in BOOLEAN :
          LookupAnswer(l, reply, set_fails)
    \/ \E key \in CacheKeys : CacheExpire(key)

SpecEnrich == Init /\ [][NextEnrich]_vars

NextFetch ==
    \/ \E ip \in FetchAddrs, cache_client \in BOOLEAN, get_fails \in BOOLEAN,
          set_fails \in BOOLEAN :
          FetchLookup(ip, cache_client, get_fails, set_fails)
    \/ \E l \in DOMAIN lookups, reply \in ProviderReplies, set_fails \in BOOLEAN :
          FetchAnswer(l, reply, set_fails)
    \/ \E ip \in FetchAddrs, get_fails \in BOOLEAN, set_fails \in BOOLEAN :
          Lookup(ip, get_fails, set_fails)
    \/ \E l \in DOMAIN lookups, reply \in ProviderReplies, set_fails \in BOOLEAN :
          LookupAnswer(l, reply, set_fails)
    \/ \E key \in CacheKeys \cup RawKeys : CacheExpire(key)

SpecFetch == Init /\ [][NextFetch]_vars

\* the application over restarts: requests of one local client, session
\* updates for its identity, the read-only endpoints and the startup
NextLife ==
    \/ \E ua \in UserAgents, db_fault \in DbFaults :
          CollectEvent(<<10, 1, 2, 3>>, None, ua, FALSE, FALSE, FALSE, db_fault)
    \/ \E tok \in WorkerTokens : UpdateSessionCall(hash_ip(<<10, 1, 2, 3>>), tok)
    \/ Tick
    \/ \E redis_fails \in BOOLEAN, db_fails \in BOOLEAN : HealthCheck(redis_fails, db_fails)
    \/ \E db_fails \in BOOLEAN : GetStats(db_fails)
    \/ \E db_fails \in BOOLEAN : Startup(db_fails)

SpecLife == Init /\ [][NextLife]_vars

NextCursor == \E f \in Faults : UseCursor(f)

SpecCursor == Init /\ [][NextCursor]_vars

NextAddr == GetIpAddress

SpecAddr == InitAddr /\ [][NextAddr]_vars

NextAsn == ResolveAsn

SpecAsn == InitAsn /\ [][NextAsn]_vars

----------------------------------------------------------------------------
(* Properties of update_session                                            *)

RowsOf(S, hashed_ip) == {i \in DOMAIN S : S[i].hashed_ip = hashed_ip}

\* the identity's rows whose end timestamp is null
OpenSessionsOf(S, hashed_ip) == {i \in RowsOf(S, hashed_ip) : S[i].session_end = NULL}

\* the step is an update_session call for (hashed_ip, session_id) that
\* returned without a database error
Returned(hashed_ip, session_id) ==
    /\ calls' = calls + 1
    /\ lastCall'.hashed_ip = hashed_ip
    /\ lastCall'.session_id = session_id
    /\ lastCall'.outcome # "error"

\* the open sessions of the identity that started less than 30 minutes ago
RecentOpenSessionsOf(S, hashed_ip, t) ==
    {i \in OpenSessionsOf(S, hashed_ip) : S[i].session_start > t - SESSION_WINDOW}

\* C1: a call without token for an identity that has no session row leaves
\* exactly one row for the identity, with page_count 1 and session_end NULL.
C1_FreshIdentityCreatesSession ==
    [][\A h \in SessionIdentities :
          (Returned(h, None) /\ RowsOf(sessions, h) = {})
          => /\ Cardinality(RowsOf(sessions', h)) = 1
             /\ \A i \in RowsOf(sessions', h) :
                   /\ sessions'[i].page_count = 1
                   /\ sessions'[i].session_end = NULL]_vars

C1_Witness ==
    /\ lastCall.outcome = "created"
    /\ lastCall.session_id = None
    /\ Cardinality(RowsOf(sessions, lastCall.hashed_ip)) = 1
    /\ \E i \in RowsOf(sessions, lastCall.hashed_ip) :
          sessions[i].page_count = 1 /\ sessions[i].session_end = NULL

\* C2: a call without token for an identity with an open session started
\* less than 30 minutes ago adds 1 to that session's page_count and adds no
\* row; the second event after a fresh start gives page_count 2.
C2_RecentSessionContinued ==
    [][\A h \in SessionIdentities :
          (Returned(h, None) /\ RecentOpenSessionsOf(sessions, h, now) # {})
          => /\ Len(sessions') = Len(sessions)
             /\ \A i \in RecentOpenSessionsOf(sessions, h, now) :
                   /\ sessions'[i].page_count = sessions[i].page_count + 1
                   /\ (continued[i] = 0 => sessions'[i].page_count = 2)]_vars

C2_Witness ==
    /\ lastCall.outcome = "continued"
    /\ lastCall.session_id = None
    /\ Len(sessions) = 1
    /\ sessions[1].page_count = 2
    /\ continued[1] = 1

\* C3: a call for an identity whose only open session started more than 30
\* minutes ago ends that session (its page_count unchanged) and leaves
\* exactly one new row for the identity, with page_count 1 and session_end NULL.
ExpiredOnly(S, hashed_ip, t) ==
    /\ Cardinality(OpenSessionsOf(S, hashed_ip)) = 1
    /\ \A i \in OpenSessionsOf(S, hashed_ip) : S[i].session_start < t - SESSION_WINDOW

C3_ExpiredSessionReplaced ==
    [][\A h \in SessionIdentities, tok \in SessionTokens :
          (Returned(h, tok) /\ ExpiredOnly(sessions, h, now))
          => /\ \A i \in OpenSessionsOf(sessions, h) :
                   /\ sessions'[i].session_end # NULL
                   /\ sessions'[i].page_count = sessions[i].page_count
             /\ Len(sessions') = Len(sessions) + 1
             /\ sessions'[Len(sessions')].hashed_ip = h
             /\ sessions'[Len(sessions')].page_count = 1
             /\ sessions'[Len(sessions')].session_end = NULL]_vars

\* C4: with update_session calls run one at a time, every identity has at
\* most one open session.
C4_AtMostOneOpenSession ==
    \A h \in SessionIdentities : Cardinality(OpenSessionsOf(sessions, h)) <= 1

C4_Witness ==
    \E h \in SessionIdentities :
       /\ Cardinality(RowsOf(sessions, h)) >= 3
       /\ Cardinality(OpenSessionsOf(sessions, h)) = 1
       /\ \E i \in RowsOf(sessions, h) : Truthy(sessions[i].session_id)
       /\ \E i \in RowsOf(sessions, h) : ~Truthy(sessions[i].session_id)

\* C5: under every interleaving of concurrent calls, no row's page_count
\* ever decreases, and a row on which n continued events have committed has
\* page_count 1 + n.
C5_PageCountExact ==
    [][/\ \A i \in DOMAIN sessions :
             sessions'[i].page_count >= sessions[i].page_count
       /\ \A i \in DOMAIN sessions' :
             sessions'[i].page_count = 1 + continued'[i]]_vars

----------------------------------------------------------------------------
(* Properties of collect_event                                             *)

Responses == {r \in DOMAIN reqs : reqs[r].pc = "responded"}
Successes == {r \in Responses : reqs[r].status = "ok"}
Failures == {r \in Responses : reqs[r].status = "error500"}

\* the sessions table holds a row for the request's identity or token
SessionReflects(r) ==
    \E i \in DOMAIN sessions :
       \/ sessions[i].hashed_ip = hash_ip(reqs[r].ip)
       \/ Truthy(reqs[r].session_id) /\ sessions[i].session_id = reqs[r].session_id

\* C6: once the background task of a successful collect_event has run, it
\* has run update_session for the event's identity and token, and the
\* sessions table reflects the event.
C6_SessionUpdateRuns ==
    \A r \in Successes :
       reqs[r].task # "scheduled"
       => /\ reqs[r].task = "done"
          /\ reqs[r].task_args = <<hash_ip(reqs[r].ip), reqs[r].session_id, DbHandle>>
          /\ SessionReflects(r)

\* C7: collect_event fails only when persisting the Event row fails:
\* whatever resolver, cache, user-agent and session-tracking failures
\* occur, a call whose INSERT and commit succeed returns success.
C7_OnlyPersistFailureFails ==
    \A r \in Responses :
       /\ reqs[r].status = "error500" => reqs[r].persist = "rolled_back"
       /\ reqs[r].persist = "committed" => reqs[r].status = "ok"

C7_Witness ==
    /\ \E r \in Successes :
          /\ {"cache_get", "resolver", "user_agent"} \subseteq reqs[r].degraded
          /\ reqs[r].task = "raised"
    /\ \E r \in Successes : "cache_set" \in reqs[r].degraded

\* C8: every successful call has added exactly one Event row and every
\* failed call none; a call whose resolver call failed and whose row was
\* persisted succeeds, with country and ASN absent in the row.
C8_OneRowPerSuccess ==
    /\ Len(events) = Cardinality(Successes)
    /\ \A r \in Successes :
          /\ reqs[r].row \in DOMAIN events
          /\ events[reqs[r].row].hashed_ip = hash_ip(reqs[r].ip)
          /\ \A q \in Successes : q # r => reqs[q].row # reqs[r].row
    /\ \A r \in Failures : reqs[r].row = 0
    /\ \A r \in Responses :
          (reqs[r].resolver = "failed" /\ reqs[r].persist # "rolled_back")
          => /\ reqs[r].status = "ok"
             /\ events[reqs[r].row].country = None
             /\ events[reqs[r].row].asn = AsnNone

C8_Witness ==
    /\ Len(events) = 1
    /\ \E r \in Failures : reqs[r].persist = "rolled_back"
    /\ \E r \in Successes :
          /\ reqs[r].resolver = "failed"
          /\ events[reqs[r].row].country = None
          /\ events[reqs[r].row].asn = AsnNone

----------------------------------------------------------------------------
(* Properties of get_ip_metadata_cached                                    *)

\* the addresses the classifier is to recognise: 127.0.0.1, ::1, 10/8,
\* 172.16/12, 192.168/16, 169.254/16
LocalAddrs ==
    {<<127, 0, 0, 1>>, <<-1>>, <<10, 1, 2, 3>>, <<172, 16, 0, 1>>,
     <<172, 31, 255, 254>>, <<192, 168, 1, 1>>, <<169, 254, 0, 1>>}

\* C9: for every local address, enrichment returns country "Local" and no
\* ASN and issues no provider request, on a cache miss and on a cache hit.
C9_LocalNeverResolved ==
    /\ \A l \in DOMAIN lookups :
          lookups[l].ip \in LocalAddrs
          => /\ lookups[l].pc = "returned"
             /\ lookups[l].metadata = Metadata("Local", AsnNone)
             /\ lookups[l].provider_requests = 0
    /\ \A ip \in LocalAddrs : resolverCalls[AddrIndex(ip)] = 0

C9_Witness ==
    \E l1, l2 \in DOMAIN lookups :
       /\ lookups[l1].ip = <<172, 31, 255, 254>>
       /\ lookups[l2].ip = <<172, 31, 255, 254>>
       /\ ~lookups[l1].hit
       /\ lookups[l2].hit
       /\ lookups[l2].metadata = Metadata("Local", AsnNone)

\* the lookups that return in this step
Returning ==
    {l \in DOMAIN lookups' :
        /\ lookups'[l].pc = "returned"
        /\ (l \in DOMAIN lookups => lookups[l].pc # "returned")}

\* the lookups that start in this step
Starting == {l \in DOMAIN lookups' : l \notin DOMAIN lookups}

\* C10: a resolver result with country and ASN both absent is never written
\* to the cache (no entry ever holds one), so a lookup that starts when the
\* address has no entry, as after a failed resolution, calls the provider again.
C10_FailedResultNotCached ==
    [][/\ \A l \in Returning :
             (~lookups'[l].hit /\ lookups'[l].metadata = MetaNone) => cache' = cache
       /\ \A key \in CacheKeys :
             cache'[key] # NoEntry => deserialize_metadata(cache'[key]) # MetaNone
       /\ \A l \in Starting :
             (cache[hash_ip(lookups'[l].ip)] = NoEntry /\ lookups'[l].ip \notin LocalAddrs)
             => /\ lookups'[l].pc = "awaiting_provider"
                /\ resolverCalls'[AddrIndex(lookups'[l].ip)]
                      = resolverCalls[AddrIndex(lookups'[l].ip)] + 1]_vars

C10_Witness ==
    /\ Len(lookups) = 2
    /\ lookups[1].ip = <<8, 8, 8, 8>>
    /\ lookups[1].pc = "returned"
    /\ lookups[1].metadata = MetaNone
    /\ lookups[1].cache_after = NoEntry
    /\ lookups[2].ip = <<8, 8, 8, 8>>
    /\ lookups[2].pc = "awaiting_provider"
    /\ resolverCalls[AddrIndex(<<8, 8, 8, 8>>)] = 2

\* an enrichment call whose cache read gave an entry
FoundEntry(l) == lookups[l].found # NoEntry /\ ~lookups[l].get_failed

\* the enrichment calls for the address that sent a provider request
Requesting(ip) ==
    {l \in DOMAIN lookups : lookups[l].ip = ip /\ lookups[l].provider_requests = 1}

\* C11: an enrichment call makes no resolver call and no provider request
\* when its cache read gives an entry, and exactly one resolver call
\* otherwise; a resolver call sends at most one provider request and gets at
\* most one answer, whatever the answer's status (429 and 403 included): the
\* requests sent for an address are as many as the calls that sent one.
C11_OneResolverCallPerMiss ==
    /\ \A l \in DOMAIN lookups :
          /\ lookups[l].pc # "raised"
          /\ FoundEntry(l) => /\ lookups[l].resolver_calls = 0
                              /\ lookups[l].provider_requests = 0
                              /\ lookups[l].answers = 0
          /\ ~FoundEntry(l) => /\ lookups[l].resolver_calls = 1
                               /\ lookups[l].provider_requests <= 1
          /\ lookups[l].answers <= lookups[l].provider_requests
          /\ lookups[l].pc = "returned"
             => lookups[l].answers = lookups[l].provider_requests
    /\ \A ip \in Addrs : resolverCalls[AddrIndex(ip)] = Cardinality(Requesting(ip))

C11_Witness ==
    /\ Len(lookups) = 2
    /\ \A l \in DOMAIN lookups : lookups[l].ip = <<8, 8, 8, 8>> /\ lookups[l].pc = "returned"
    /\ lookups[1].resolver_calls = 1
    /\ lookups[1].provider_requests = 1
    /\ lookups[1].answers = 1
    /\ lookups[1].wrote
    /\ lookups[2].hit
    /\ lookups[2].resolver_calls = 0
    /\ resolverCalls[AddrIndex(<<8, 8, 8, 8>>)] = 1

\* the pairs (l1, l2) of enrichment calls for one address where l1 missed
\* and wrote its result to the cache and l2, arriving later, began while the
\* entry l1 wrote was in the cache (neither expired nor overwritten), and
\* has returned
WrittenThenLookedUp ==
    {p \in (DOMAIN lookups) \X (DOMAIN lookups) :
        /\ p[1] < p[2]
        /\ lookups[p[1]].ip = lookups[p[2]].ip
        /\ ~lookups[p[1]].hit
        /\ lookups[p[1]].wrote
        /\ lookups[p[2]].found = lookups[p[1]].cache_after
        /\ lookups[p[2]].pc = "returned"}

\* C12 as stated: once a miss has cached a result with a non-absent field,
\* every later enrichment of the address before the entry expires returns
\* the country and ASN that were written.
C12_CachedValuesReturned ==
    \A p \in WrittenThenLookedUp : lookups[p[2]].metadata = lookups[p[1]].metadata

\* C12, amended: once a miss has cached a result with a non-absent field,
\* every later enrichment of the address whose cache read gives that entry
\* (a hit) returns the country and ASN that were written, an absent one
\* staying absent; a call whose cache read fails resolves again.
C12_HitReturnsWrittenValues ==
    \A p \in WrittenThenLookedUp :
       lookups[p[2]].hit => lookups[p[2]].metadata = lookups[p[1]].metadata

C12_Witness ==
    /\ <<1, 2>> \in WrittenThenLookedUp
    /\ lookups[1].metadata = Metadata("US", AsnNone)
    /\ lookups[2].hit
    /\ lookups[2].metadata = Metadata("US", AsnNone)

----------------------------------------------------------------------------
(* Properties of the cache keys                                            *)

\* C13: every key under which an enrichment call (get_ip_metadata_cached or
\* get_cached_or_fetch) reads or writes the cache is the hash of the address;
\* no key holds the raw address.
C13_KeysAreHashes ==
    /\ \A l \in DOMAIN lookups :
          \A key \in lookups[l].keys : key = hash_ip(lookups[l].ip)
    /\ \A key \in DOMAIN cache :
          cache[key] # NoEntry => key \in {hash_ip(a) : a \in Addrs}

----------------------------------------------------------------------------
(* Properties of the tables                                                *)

\* C14: no step (collect_event, update_session, health check, stats read,
\* application startup) deletes an Event or Session row, and no step
\* changes an Event row: every row of either table is still there after the
\* step, the Event rows as they were.
C14_RowsNeverDeleted ==
    [][/\ Len(events') >= Len(events)
       /\ \A i \in DOMAIN events : events'[i] = events[i]
       /\ Len(sessions') >= Len(sessions)
       /\ \A i \in DOMAIN sessions :
             /\ sessions'[i].hashed_ip = sessions[i].hashed_ip
             /\ sessions'[i].session_start = sessions[i].session_start]_vars

----------------------------------------------------------------------------
(* Properties of Database.get_cursor                                       *)

\* the positions in a use's calls where the given call was made
CallsOf(u, call) == {i \in DOMAIN u.ops : u.ops[i].call = call}

\* the calls of the given name that completed / that raised
CompletedOf(u, call) == {i \in CallsOf(u, call) : ~u.ops[i].raised}
RaisedOf(u, call) == {i \in CallsOf(u, call) : u.ops[i].raised}

\* the use ends with exactly one of a completed commit (the body completed)
\* or a rollback (the body or the commit raised)
OneCommitOrRollback(u) ==
    /\ Cardinality(CompletedOf(u, "conn.commit")) + Cardinality(CallsOf(u, "conn.rollback")) = 1
    /\ CompletedOf(u, "conn.commit") # {} => CompletedOf(u, "body") # {}
    /\ CallsOf(u, "conn.rollback") # {}
       <=> (RaisedOf(u, "body") # {} \/ RaisedOf(u, "conn.commit") # {})
    /\ \A i \in CallsOf(u, "conn.rollback") :
          \A j \in CallsOf(u, "body") \cup CallsOf(u, "conn.commit") : j < i

\* the cursor is closed once, after the commit or rollback, and the
\* connection once, afterwards, as the last call
ClosedInOrder(u) ==
    /\ Cardinality(CallsOf(u, "cursor.close")) = 1
    /\ CallsOf(u, "conn.close") = {Len(u.ops)}
    /\ \A i \in CallsOf(u, "cursor.close") :
          /\ i = Len(u.ops) - 1
          /\ \A j \in CallsOf(u, "conn.commit") \cup CallsOf(u, "conn.rollback") : j < i

\* C15 as stated: every use of get_cursor ends with exactly one of commit or
\* rollback, with the cursor closed and then the connection closed on every
\* exit path, and an exception of the body is the one that reaches the
\* caller, after the rollback.
C15_EveryUseCommitsOrRollsBack ==
    \A k \in DOMAIN cursorUses :
       LET u == cursorUses[k]
       IN  /\ OneCommitOrRollback(u)
           /\ ClosedInOrder(u)
           /\ RaisedOf(u, "body") # {} => u.exception = "body"

\* C15, amended: every use of get_cursor that obtained its connection and
\* its cursor ends with exactly one of commit or rollback, with the cursor
\* closed and then the connection closed; an exception of the body reaches
\* the caller after the rollback, unless the rollback raises, whose
\* exception then does.  When connect raises nothing else is called; when
\* conn.cursor() raises only the connection is closed.
C15_AcquiredUseCommitsOrRollsBack ==
    \A k \in DOMAIN cursorUses :
       LET u == cursorUses[k]
       IN  /\ CallsOf(u, "body") # {}
              => /\ OneCommitOrRollback(u)
                 /\ ClosedInOrder(u)
                 /\ RaisedOf(u, "body") # {}
                    => u.exception = (IF RaisedOf(u, "conn.rollback") # {}
                                      THEN "rollback" ELSE "body")
                 /\ u.exception = "none" <=> CompletedOf(u, "conn.commit") # {}
           /\ RaisedOf(u, "connect") # {}
              => Len(u.ops) = 1 /\ u.exception = "connect"
           /\ RaisedOf(u, "conn.cursor") # {}
              => /\ Len(u.ops) = 3
                 /\ CallsOf(u, "conn.close") = {3}
                 /\ u.exception = "cursor"

C15_Witness ==
    /\ Len(cursorUses) = 2
    /\ CompletedOf(cursorUses[1], "conn.commit") # {}
    /\ cursorUses[1].exception = "none"
    /\ RaisedOf(cursorUses[2], "body") # {}
    /\ CompletedOf(cursorUses[2], "conn.rollback") # {}
    /\ cursorUses[2].exception = "body"
    /\ ClosedInOrder(cursorUses[2])

----------------------------------------------------------------------------
(* Properties of get_ip_address                                            *)

\* a header value of the corpus without its blanks (no value of the corpus
\* has a blank inside an address)
WithoutBlanks(str) == SelectSeq(str, LAMBDA c : c # " ")

\* the first hop of an x-forwarded-for value
FirstHop(str) ==
    LET commas == {i \in DOMAIN str : str[i] = ","}
    IN  IF commas = {} THEN str
        ELSE SubSeq(str, 1, (CHOOSE i \in commas : \A j \in commas : i <= j) - 1)

\* C16 as stated: get_ip_address returns the cf-connecting-ip value when the
\* header is present and non-empty, otherwise the first hop of
\* x-forwarded-for when that header is present, otherwise the connection's
\* address; header values stripped of surrounding whitespace.
C16_AddressPriority ==
    addrCall.pc = "returned"
    => LET request == addrCall.request
       IN  IF request.cf.present /\ request.cf.value # <<>>
           THEN addrCall.result = WithoutBlanks(request.cf.value)
           ELSE IF request.xff.present
           THEN addrCall.result = WithoutBlanks(FirstHop(request.xff.value))
           ELSE addrCall.result = request.client_host

\* C16, amended: get_ip_address returns the cf-connecting-ip value when the
\* header is present and non-empty, otherwise the first hop of
\* x-forwarded-for when that header is present and non-empty, otherwise the
\* connection's address; header values stripped of surrounding whitespace.
C16_AddressPriorityNonEmpty ==
    addrCall.pc = "returned"
    => LET request == addrCall.request
       IN  IF request.cf.present /\ request.cf.value # <<>>
           THEN addrCall.result = WithoutBlanks(request.cf.value)
           ELSE IF request.xff.present /\ request.xff.value # <<>>
           THEN addrCall.result = WithoutBlanks(FirstHop(request.xff.value))
           ELSE addrCall.result = request.client_host

C16_Witness ==
    /\ addrCall.pc = "returned"
    /\ addrCall.request.cf = Header(<<>>)
    /\ addrCall.request.xff = Header(<<" ", "2", " ", ",", " ", "3">>)
    /\ addrCall.result = <<"2">>

----------------------------------------------------------------------------
(* Further properties of update_session                                    *)

\* C17: a call with a token changes the page_count only of a session whose
\* token is the supplied one and whose identity is the call's, and changes
\* no row of another identity.
C17_TokenScopedByIdentity ==
    [][\A h \in SessionIdentities, tok \in SessionTokens :
          (Returned(h, tok) /\ Truthy(tok))
          => \A i \in DOMAIN sessions :
                /\ sessions'[i].page_count # sessions[i].page_count
                   => /\ sessions[i].session_id = tok
                      /\ sessions[i].hashed_ip = h
                /\ sessions'[i] # sessions[i] => sessions[i].hashed_ip = h]_vars

\* C18: a call that finds an active session changes the sessions table in
\* one place only, the page_count of one active row it matched, which grows
\* by 1: no row is added, every other row and every other column of that
\* row (session_start, session_end, hashed_ip, session_id) stay as they were.
C18_ContinueChangesOnlyPageCount ==
    [][\A h \in SessionIdentities, tok \in SessionTokens :
          (Returned(h, tok) /\ ActiveMatches(sessions, h, tok, now) # {})
          => \E i \in ActiveMatches(sessions, h, tok, now) :
                sessions' = [sessions EXCEPT ![i].page_count = @ + 1]]_vars

C18_Witness ==
    /\ lastCall.outcome = "continued"
    /\ lastCall.id = 2
    /\ Len(sessions) = 2
    /\ sessions[1].page_count = 1
    /\ sessions[1].session_end = NULL
    /\ sessions[2].page_count = 2
    /\ sessions[2].session_end = NULL
    /\ sessions[2].session_start = 0
    /\ now > 0

----------------------------------------------------------------------------
(* Properties of concurrent update_session calls                           *)

\* the step is the commit of worker w's transaction, which had found no
\* active session
CreatingCommit(w) ==
    /\ txn[w].pc = "inserted"
    /\ txn'[w].pc = "idle"
    /\ sessions' # sessions

\* C19: a call that found no active session adds exactly one row when it
\* commits, and no step adds more than one, so two such calls add no more
\* than two rows; once it has committed, no session of its identity that was
\* in the table when it ran its SELECT is open.  (That two overlapping calls
\* leave two open sessions for one identity is reachable: the witness.)
C19_RacingCallsInsertOneRowEach ==
    [][/\ Len(sessions') <= Len(sessions) + 1
       /\ Len(sessions') > Len(sessions) => \E w \in Workers : CreatingCommit(w)
       /\ \A w \in Workers :
             CreatingCommit(w)
             => /\ Len(sessions') = Len(sessions) + 1
                /\ sessions'[Len(sessions')].hashed_ip = txn[w].hashed_ip
                /\ sessions'[Len(sessions')].session_end = NULL
                /\ \A i \in OpenSessionsOf(sessions', txn[w].hashed_ip) :
                      i > txn[w].seen]_vars

\* two calls for one identity that overlapped have each added a row, both
\* rows are open, and the session that was open before them is ended
C19_Witness ==
    /\ Len(sessions) = 3
    /\ calls = 3
    /\ \A i \in DOMAIN sessions : sessions[i].hashed_ip = hash_ip(<<8, 8, 8, 8>>)
    /\ sessions[1].session_end # NULL
    /\ sessions[2].session_end = NULL
    /\ sessions[3].session_end = NULL
    /\ sessions[2].session_start = sessions[3].session_start
    /\ sessions[1].session_start < sessions[2].session_start - SESSION_WINDOW

----------------------------------------------------------------------------
(* Failure of update_session                                               *)

\* C20: no exception leaves an update_session call, and a call in which a
\* statement or the commit failed (the INSERT after the closing UPDATE
\* included) leaves the sessions table exactly as it was before the call.
C20_AllOrNothingNeverRaises ==
    [][calls' = calls + 1
       => /\ lastCall'.raised = "none"
          /\ lastCall'.outcome = "error" => sessions' = sessions]_vars

\* a call that had found no active session has failed; the identity's
\* expired session, which its closing UPDATE ends, is open as before
C20_Witness ==
    /\ lastCall.outcome = "error"
    /\ lastCall.raised = "none"
    /\ lastCall.id = 0
    /\ \E i \in OpenSessionsOf(sessions, lastCall.hashed_ip) :
          sessions[i].session_start < now - SESSION_WINDOW

----------------------------------------------------------------------------
(* Ordering of the response and the session update                         *)

\* C21: a request has a session update scheduled only once its Event row is
\* committed and its response produced, so a request whose Event row was not
\* persisted never has one; the scheduled update runs in a later step than
\* the one that produced the response; and no step, the run or the failure
\* of the scheduled update included, changes a response already produced.
C21_SessionUpdateAfterCommit ==
    [][/\ \A r \in DOMAIN reqs' :
             /\ reqs'[r].task # "none"
                => /\ reqs'[r].persist = "committed"
                   /\ reqs'[r].row \in DOMAIN events'
                   /\ reqs'[r].pc = "responded"
                   /\ reqs'[r].status = "ok"
             /\ reqs'[r].persist # "committed" => reqs'[r].task = "none"
             /\ reqs'[r].task \in {"raised", "done"}
                => /\ r \in DOMAIN reqs
                   /\ reqs[r].pc = "responded"
                   /\ reqs[r].task \in {"scheduled", reqs'[r].task}
       /\ \A r \in DOMAIN reqs :
             reqs[r].pc = "responded"
             => /\ reqs'[r].pc = "responded"
                /\ reqs'[r].status = reqs[r].status
                /\ reqs'[r].row = reqs[r].row
                /\ reqs'[r].persist = reqs[r].persist]_vars

\* one request's Event row was not persisted and no session update was
\* scheduled for it; another's was committed, its scheduled session update
\* has raised, and its response is still the success
C21_Witness ==
    /\ \E r \in DOMAIN reqs :
          /\ reqs[r].pc = "responded"
          /\ reqs[r].persist = "rolled_back"
          /\ reqs[r].status = "error500"
          /\ reqs[r].task = "none"
    /\ \E r \in DOMAIN reqs :
          /\ reqs[r].persist = "committed"
          /\ reqs[r].task = "raised"
          /\ reqs[r].status = "ok"
          /\ reqs[r].row \in DOMAIN events

----------------------------------------------------------------------------
(* Ended sessions                                                          *)

\* C22: a session row whose session_end is set is left as it is by every
\* step of every interleaving of update_session calls: session_end is not
\* cleared or overwritten and page_count does not change.
C22_EndedSessionImmutable ==
    [][\A i \in DOMAIN sessions :
          sessions[i].session_end # NULL
          => /\ i \in DOMAIN sessions'
             /\ sessions'[i].session_end = sessions[i].session_end
             /\ sessions'[i].page_count = sessions[i].page_count]_vars

----------------------------------------------------------------------------
(* The resolver's ASN                                                      *)

\* the org string begins with AS followed by a digit
LeadingAsn(org) ==
    /\ Len(org) >= 3
    /\ org[1] = "A"
    /\ org[2] = "S"
    /\ IsDigitChar(org[3])

\* C23: the asn returned for an org string that begins with AS and digits
\* is the number those digits write; for the empty string and for every
\* string that does not begin so it is absent (not 0).
C23_AsnFromLeadingToken ==
    asnCall.pc = "returned"
    => IF LeadingAsn(asnCall.org)
       THEN asnCall.asn = IntOfDigits(asnCall.org, 3, 0)
       ELSE asnCall.asn = AsnNone

====
